---- MODULE Spec2Model ----
(***************************************************************************)
(* A model of modelbase2's parameter-fitting loop (fit.py) and of the      *)
(* steady-state detection of its two integrator backends (int_scipy.py,    *)
(* int_assimulo.py).                                                       *)
(*                                                                         *)
(* Floats.  A parameter value is a power of ten, written by its exponent:  *)
(* Num(e) stands for 10^e, NaN for not-a-number.  A residual is either     *)
(* +infinity or the root-mean-square error sqrt(sumsq / n), written by the *)
(* pair (sumsq, n).  A state vector of an integrator is a tuple of         *)
(* integers (fixed-point concentrations); a tolerance is the rational      *)
(* num / den.                                                              *)
(***************************************************************************)
EXTENDS Integers, Sequences, FiniteSets, TLC

VARIABLES
    \* ---- the Model and one fitting call (fit.py) ----
    parameters,   \* Model.parameters: name -> value
    fit_pc,       \* "idle" | "minimizing" | "returned" | "raised"
    fit_kind,     \* "steady_state" | "time_course"
    minimize_fn,  \* "default" (_default_minimize_fn) | "custom"
    p0,           \* the initial guess, an ordered dict: sequence of <<name, value>>
    data,         \* the experimental data: label -> sequence of rows
    par_names,    \* list(p0.keys())
    p_orig,       \* the copy of model.parameters taken to restore
    x0,           \* list(p0.values()), the minimizer's start vector
    x,            \* the candidate vector of the latest residual evaluation
    evals,        \* number of residual evaluations of this call
    p_before,     \* history: the Model's parameters before the latest evaluation
    sim,          \* the latest simulation: whether it returned, and its (c_ss, v_ss)
    loss_called,  \* whether the latest evaluation called the likelihood
    residual,     \* the value the latest evaluation returned
    min_res,      \* the underlying minimizer's result (success, x)
    res,          \* the map the fitting call returns
    p_pre,        \* history: the Model's parameters when the call began
    calls,        \* number of fitting calls begun
    \* ---- one integrator backend and its steady-state detection ----
    backend,      \* "scipy" | "assimulo"
    system,       \* the ODE system the right-hand side describes
    y0,           \* Scipy.y0 / Assimulo.y0: the live state
    t0,           \* Scipy.t0
    _y0_orig,     \* Scipy._y0_orig
    integ_t,      \* the underlying solver's current time (spi.ode / CVode)
    integ_y,      \* the underlying solver's current state
    ss_pc,        \* "idle" | "loop" | "done"
    tolerance,    \* the rational tolerance.num / tolerance.den
    rel_norm,
    step_size,    \* Scipy only
    max_steps,    \* Scipy only
    t_max,        \* Assimulo only
    t,            \* Scipy: the local t; Assimulo: the last time point t[-1]
    y1,           \* Scipy: the local y1
    y2,           \* Scipy: the local y2
    y,            \* Assimulo: the last two points <<y[-2], y[-1]>> of the trajectory
    steps,        \* solver calls made by this detection
    ss_result,    \* None, or Some(<<time, state>>)
    hist,         \* history: one record per window of this detection
    \* ---- one call of integrate / integrate_time_course / reset on a backend ----
    t0_ctor,      \* the t0 the backend was constructed with
    op,           \* history: the names of the calls made, in order
    op_args,      \* the arguments of the latest call
    op_pre,       \* history: the backend's <<time, state>> when the call began
    op_failed,    \* history: whether the underlying solver failed in the call
    op_result,    \* what the call gave: None, Some(trajectory), Raised
    ops,          \* number of calls made
    \* ---- one evaluation of a likelihood (rmse_ss / rmse_tc) ----
    loss_in,      \* its inputs: kind, data, results
    loss_out,     \* its value, and its value when every difference changes sign
    \* ---- two fitting calls with interleaved steps ----
    models,       \* Model id -> parameter map
    fits,         \* fit id -> the state of that fitting call
    \* ---- the arrays a Scipy backend and its caller hold ----
    heap,         \* storage: address -> the values of the array stored there
    refs,         \* the address behind each name: the caller's constructor argument,
                  \* self.y0, self._y0_orig, and the last result returned (0: none)
    snap          \* history: the values of the initial condition at construction

fitvars == <<parameters, fit_pc, fit_kind, minimize_fn, p0, data, par_names, p_orig,
             x0, x, evals, p_before, sim, loss_called, residual, min_res, res, p_pre,
             calls>>

steadyvars == <<backend, system, y0, t0, _y0_orig, integ_t, integ_y, ss_pc, tolerance,
                rel_norm, step_size, max_steps, t_max, t, y1, y2, y, steps, ss_result,
                hist>>

opvars == <<t0_ctor, op, op_args, op_pre, op_failed, op_result, ops>>

lossvars == <<loss_in, loss_out>>

pairvars == <<models, fits>>

memvars == <<heap, refs, snap>>

restvars == <<opvars, lossvars, pairvars, memvars>>

vars == <<fitvars, steadyvars, restvars>>

----------------------------------------------------------------------------
(* Bounds of the model *)

MaxCalls == 2
MaxEvals == 2
MaxLen == 2
MaxRepeat == 3

----------------------------------------------------------------------------
(* Floats *)

Num(e) == <<"num", e>>
NaN == <<"nan", 0>>

LowerBoundExp == -12
UpperBoundExp == 6

\* bounds=[(1e-12, 1e6) for _ in range(len(p0))]
InBounds(v) == v[1] = "num" /\ LowerBoundExp <= v[2] /\ v[2] <= UpperBoundExp

Inf == [kind |-> "inf", sumsq |-> 0, n |-> 0]
Raised == [kind |-> "raised", sumsq |-> 0, n |-> 0]
NoValue == [kind |-> "none", sumsq |-> 0, n |-> 0]

None == <<>>
Some(v) == <<v>>

NotRun == [ran |-> FALSE, c |-> None, v |-> None]

----------------------------------------------------------------------------
(* Dicts, zip *)

Keys(d) == [i \in 1..Len(d) |-> d[i][1]]
Values(d) == [i \in 1..Len(d) |-> d[i][2]]

\* zip(a, b, strict=True): raises ValueError when the lengths differ
ZipStrictRaises(a, b) == Len(a) # Len(b)
ZipStrict(a, b) == [i \in 1..Len(a) |-> <<a[i], b[i]>>]

\* dict(pairs): a later pair of the same key wins
Dict(pairs) ==
    [k \in {pairs[i][1] : i \in 1..Len(pairs)} |->
        LET last == CHOOSE i \in 1..Len(pairs) :
                        /\ pairs[i][1] = k
                        /\ \A j \in 1..Len(pairs) : pairs[j][1] = k => j <= i
        IN pairs[last][2]]

\* np.full(n, np.nan)
FullNaN(n) == [i \in 1..n |-> NaN]

----------------------------------------------------------------------------
(* The Model collaborator *)

\* Model.parameters: the current name -> value map, as a copy
ModelParameters(params) == params

\* mutant: the parameters that are not named are reset
update_parameters_resetting(params, d) ==
    [k \in DOMAIN params |-> IF k \in DOMAIN d THEN d[k] ELSE Num(0)]

\* Model.update_parameters(d): overwrite the named parameters, keep the rest
update_parameters(params, d) ==
    [k \in DOMAIN params |-> IF k \in DOMAIN d THEN d[k] ELSE params[k]]

----------------------------------------------------------------------------
(* Tables: experimental data and simulated results *)

Sq(a) == a * a

RECURSIVE SumSeq(_)
SumSeq(s) == IF s = <<>> THEN 0 ELSE Head(s) + SumSeq(Tail(s))

RECURSIVE SumSet(_, _)
SumSet(S, f) ==
    IF S = {} THEN 0
    ELSE LET e == CHOOSE e \in S : TRUE IN f[e] + SumSet(S \ {e}, f)

\* number of rows of a results table (every column has the same length)
NRows(results) == LET l == CHOOSE l \in DOMAIN results : TRUE IN Len(results[l])

\* pd.concat((c_ss, v_ss), axis=1): the columns of both tables side by side
Concat(c, v) == [l \in DOMAIN c \cup DOMAIN v |-> IF l \in DOMAIN c THEN c[l] ELSE v[l]]

\* results.loc[:, labels]: KeyError when a label is no column of results
LocRaises(results, labels) == ~(labels \subseteq DOMAIN results)

\* rmse_ss: data is a Series (label -> value), broadcast over the rows of results
rmse_ss(d, results) ==
    IF LocRaises(results, DOMAIN d) THEN Raised
    ELSE LET colsq == [l \in DOMAIN d |->
                         SumSeq([r \in 1..Len(results[l]) |-> Sq(d[l] - results[l][r])])]
         IN [kind |-> "rmse",
             sumsq |-> SumSet(DOMAIN d, colsq),
             n |-> Cardinality(DOMAIN d) * NRows(results)]

\* rmse_tc: data is a DataFrame (label -> column), aligned with results row by row
rmse_tc(d, results) ==
    IF LocRaises(results, DOMAIN d) THEN Raised
    ELSE LET colsq == [l \in DOMAIN d |->
                         SumSeq([r \in 1..Len(d[l]) |-> Sq(d[l][r] - results[l][r])])]
         IN [kind |-> "rmse",
             sumsq |-> SumSet(DOMAIN d, colsq),
             n |-> Cardinality(DOMAIN d) * NRows(results)]

\* the likelihood a fitting call of this kind is configured with by default
likelihood(kind, d, results) ==
    IF kind = "steady_state" THEN rmse_ss(d, results) ELSE rmse_tc(d, results)

----------------------------------------------------------------------------
(* Inputs of the fitting calls *)

ModelParNames == {"k1", "k2", "k3"}

InitParameters == { ("k1" :> Num(1)) @@ ("k2" :> Num(-2)) @@ ("k3" :> Num(3)) }

\* initial guesses: one or two distinct parameter names, in either order
P0Value(k) == IF k = "k1" THEN Num(-1) ELSE IF k = "k2" THEN Num(2) ELSE Num(-3)
P0Set ==
    { <<<<k, P0Value(k)>>>> : k \in {"k2"} }
    \cup { <<<<ab[1], P0Value(ab[1])>>, <<ab[2], P0Value(ab[2])>>>> :
             ab \in {<<"k1", "k2">>, <<"k2", "k1">>, <<"k3", "k1">>} }

\* what a minimizer may hand to the residual function, and return
BoxValues == {Num(LowerBoundExp), Num(0), Num(UpperBoundExp)}
AnyValues == {Num(LowerBoundExp - 1), Num(UpperBoundExp + 1)}
Vectors(S, n) == [1..n -> S]
VectorsUpTo(S, n) == UNION {Vectors(S, k) : k \in 0..n}

\* experimental data; the label "X" is no column of any simulated table
DataSS == { ("S" :> 2) @@ ("v1" :> 1), ("S" :> 2) @@ ("X" :> 1) }
DataTC == { ("S" :> <<2, 1>>) @@ ("v1" :> <<1, 1>>), ("S" :> <<2, 1>>) @@ ("X" :> <<1, 1>>) }
DataOf(kind) == IF kind = "steady_state" THEN DataSS ELSE DataTC

\* what Simulator(...).simulate_*().get_full_concs_and_fluxes() may give:
\* (concentrations | None, fluxes | None), or an unexpected error
ColumnsOf(kind) == IF kind = "steady_state" THEN {<<0>>, <<2>>} ELSE {<<0, 0>>, <<2, 1>>}
ConcTables(kind) == {("S" :> col) : col \in ColumnsOf(kind)}
FluxTables(kind) == {("v1" :> col) : col \in ColumnsOf(kind)}
SimOutcomes(kind) ==
    [raised : {FALSE},
     c : {None} \cup {Some(tab) : tab \in ConcTables(kind)},
     v : {None} \cup {Some(tab) : tab \in FluxTables(kind)}]
    \cup {[raised |-> TRUE, c |-> None, v |-> None]}

----------------------------------------------------------------------------
(* fit.py: the residual functions *)

\* mutant: a failed simulation scores as a perfect fit instead of +infinity
ResidualOfZeroOnFailure(kind, d, c_ss, v_ss) ==
    IF c_ss = None \/ v_ss = None
    THEN [value |-> [kind |-> "rmse", sumsq |-> 0, n |-> 1], loss_called |-> FALSE]
    ELSE [value |-> likelihood(kind, d, Concat(c_ss[1], v_ss[1])), loss_called |-> TRUE]

\* lines 150-153 (189-192): +inf on a failed simulation, else the likelihood
ResidualOf(kind, d, c_ss, v_ss) ==
    IF c_ss = None \/ v_ss = None
    THEN [value |-> Inf, loss_called |-> FALSE]
    ELSE [value |-> likelihood(kind, d, Concat(c_ss[1], v_ss[1])), loss_called |-> TRUE]

Reverse(s) == [i \in 1..Len(s) |-> s[Len(s) + 1 - i]]

\* mutant: the values are paired with the names in the opposite order
CandidateDictReordered(names, par_values) == Dict(ZipStrict(names, Reverse(par_values)))

\* mutant: a component at 10^0 is left out of the dict
NotUnit(pair) == pair[2] # Num(0)
CandidateDictSparse(names, par_values) == Dict(SelectSeq(ZipStrict(names, par_values), NotUnit))

\* dict(zip(par_names, par_values, strict=True)) handed to model.update_parameters
CandidateDict(names, par_values) == Dict(ZipStrict(names, par_values))

\* one evaluation of the residual function by the minimizer
Residual(kind, par_values) ==
    /\ fit_pc = "minimizing"
    /\ fit_kind = kind
    /\ evals < MaxEvals
    /\ x' = par_values
    /\ evals' = evals + 1
    /\ p_before' = parameters
    /\ IF ZipStrictRaises(par_names, par_values)
       THEN /\ fit_pc' = "raised"
            /\ residual' = Raised
            /\ sim' = NotRun
            /\ loss_called' = FALSE
            /\ UNCHANGED parameters
       ELSE \E o \in SimOutcomes(kind) :
            /\ parameters' = update_parameters(parameters, CandidateDict(par_names, par_values))
            /\ sim' = [ran |-> ~o.raised, c |-> o.c, v |-> o.v]
            /\ IF o.raised
               THEN /\ residual' = Raised
                    /\ loss_called' = FALSE
                    /\ fit_pc' = "raised"
               ELSE LET r == ResidualOf(kind, data, o.c, o.v)
                    IN /\ residual' = r.value
                       /\ loss_called' = r.loss_called
                       /\ fit_pc' = IF r.value = Raised THEN "raised" ELSE "minimizing"
    /\ UNCHANGED <<fit_kind, minimize_fn, p0, data, par_names, p_orig, x0, min_res, res,
                   p_pre, calls>>

\* the vectors the minimizer in use may evaluate
Candidates ==
    IF minimize_fn = "default" THEN Vectors(BoxValues, Len(p0))
    ELSE VectorsUpTo(AnyValues, MaxLen)

_steady_state_residual ==
    /\ \E par_values \in Candidates : Residual("steady_state", par_values)
    /\ UNCHANGED <<steadyvars, restvars>>

_time_course_residual ==
    /\ \E par_values \in Candidates : Residual("time_course", par_values)
    /\ UNCHANGED <<steadyvars, restvars>>

----------------------------------------------------------------------------
(* fit.py: the minimizer and the fitting calls *)

\* mutant: the result vector is returned whether or not the minimizer succeeded
_default_minimize_fn_no_nan(p, success, resx) == ZipStrict(Keys(p), resx)

\* lines 88-96: the result of scipy's minimize, zipped onto the names of p0
_default_minimize_fn(p, success, resx) ==
    IF success THEN ZipStrict(Keys(p), resx)
    ELSE ZipStrict(Keys(p), FullNaN(Len(p)))

\* mutant: the fitting call returns without restoring
RestoreSkipped(params, orig) == params

\* lines 246-247 (299): model.update_parameters(p_orig)
Restore(params, orig) == update_parameters(params, orig)

\* lines 227-244 (283-298): up to the call of minimize_fn
FitCall(kind) ==
    /\ fit_pc \in {"idle", "returned"}
    /\ calls < MaxCalls
    /\ \E m \in {"default", "custom"}, p \in P0Set, d \in DataOf(kind) :
        /\ fit_kind' = kind
        /\ minimize_fn' = m
        /\ p0' = p
        /\ data' = d
        /\ par_names' = Keys(p)
        /\ p_orig' = ModelParameters(parameters)
        /\ x0' = IF m = "default" THEN Values(p) ELSE <<>>
    /\ p_pre' = parameters
    /\ p_before' = parameters
    /\ fit_pc' = "minimizing"
    /\ calls' = calls + 1
    /\ evals' = 0
    /\ x' = <<>>
    /\ sim' = NotRun
    /\ loss_called' = FALSE
    /\ residual' = NoValue
    /\ min_res' = <<>>
    /\ res' = <<>>
    /\ UNCHANGED parameters

steady_state == FitCall("steady_state") /\ UNCHANGED <<steadyvars, restvars>>

time_course == FitCall("time_course") /\ UNCHANGED <<steadyvars, restvars>>

\* minimize_fn returns: lines 244-248 (298-300), the restore and the return
FitReturn ==
    /\ fit_pc = "minimizing"
    /\ \/ /\ minimize_fn = "default"
          /\ evals >= 1
          /\ \E success \in BOOLEAN, resx \in Vectors(BoxValues, Len(p0)) :
              /\ min_res' = <<success, resx>>
              /\ res' = _default_minimize_fn(p0, success, resx)
       \/ /\ minimize_fn = "custom"
          /\ \E resx \in Vectors({Num(0), NaN}, Len(p0)) :
              /\ min_res' = <<TRUE, resx>>
              /\ res' = ZipStrict(Keys(p0), resx)
    /\ parameters' = Restore(parameters, p_orig)
    /\ fit_pc' = "returned"
    \* the locals of the latest residual evaluation are gone
    /\ p_before' = parameters'
    /\ sim' = NotRun
    /\ loss_called' = FALSE
    /\ residual' = NoValue
    /\ UNCHANGED <<fit_kind, minimize_fn, p0, data, par_names, p_orig, x0, x, evals,
                   p_pre, calls>>
    /\ UNCHANGED <<steadyvars, restvars>>

\* a pluggable minimize_fn ends with an error of its own: nothing below line 244 runs
MinimizeRaises ==
    /\ fit_pc = "minimizing"
    /\ minimize_fn = "custom"
    /\ fit_pc' = "raised"
    /\ UNCHANGED <<parameters, fit_kind, minimize_fn, p0, data, par_names, p_orig, x0, x,
                   evals, p_before, sim, loss_called, residual, min_res, res, p_pre, calls>>
    /\ UNCHANGED <<steadyvars, restvars>>

FitInit ==
    /\ parameters \in InitParameters
    /\ fit_pc = "idle"
    /\ fit_kind = "steady_state"
    /\ minimize_fn = "default"
    /\ p0 = <<>>
    /\ data = <<>>
    /\ par_names = <<>>
    /\ p_orig = parameters
    /\ x0 = <<>>
    /\ x = <<>>
    /\ evals = 0
    /\ p_before = parameters
    /\ sim = NotRun
    /\ loss_called = FALSE
    /\ residual = NoValue
    /\ min_res = <<>>
    /\ res = <<>>
    /\ p_pre = parameters
    /\ calls = 0

----------------------------------------------------------------------------
(* State vectors and norms *)

\* state vectors have two components
Zero == <<0, 0>>
Dim == Len(Zero)
Scale(v, a, b) == [i \in 1..Dim |-> (v[i] * a) \div b]

RECURSIVE Gcd(_, _)
Gcd(a, b) == IF b = 0 THEN a ELSE Gcd(b, a % b)
Abs(a) == IF a < 0 THEN -a ELSE a

\* mutant: a component divided by zero counts as no change
FracZeroSafe(n, d) ==
    IF d = 0 THEN [num |-> 0, den |-> 1]
    ELSE LET g == Gcd(Abs(n), Abs(d)) IN [num |-> n \div g, den |-> d \div g]

\* the fraction n / d in lowest terms; a zero divisor is kept (the float is inf or nan)
Frac(n, d) ==
    IF d = 0 THEN [num |-> n, den |-> 0]
    ELSE LET g == Gcd(Abs(n), Abs(d)) IN [num |-> n \div g, den |-> d \div g]

RECURSIVE ProdSqDen(_)
ProdSqDen(d) == IF d = <<>> THEN 1 ELSE Sq(Head(d).den) * ProdSqDen(Tail(d))

\* np.linalg.norm(diff, ord=2) < tolerance, on exact fractions; a component
\* divided by zero is inf or nan, the norm is then inf or nan, and the comparison False
NormBelow(diff, tol) ==
    /\ \A i \in 1..Len(diff) : diff[i].den # 0
    /\ LET all == ProdSqDen(diff)
           terms == [i \in 1..Len(diff) |-> Sq(diff[i].num) * (all \div Sq(diff[i].den))]
       IN SumSeq(terms) * Sq(tol.den) < Sq(tol.num) * all

\* mutant: a norm equal to the tolerance counts as converged
NormNotAbove(diff, tol) ==
    /\ \A i \in 1..Len(diff) : diff[i].den # 0
    /\ LET all == ProdSqDen(diff)
           terms == [i \in 1..Len(diff) |-> Sq(diff[i].num) * (all \div Sq(diff[i].den))]
       IN SumSeq(terms) * Sq(tol.den) <= Sq(tol.num) * all

\* int_scipy.py line 142: diff = (y2 - y1) / y1 if rel_norm else y2 - y1
ScipyDiff(new, old, rel) ==
    [i \in 1..Dim |-> Frac(new[i] - old[i], IF rel THEN old[i] ELSE 1)]

\* int_assimulo.py line 123: diff = (y[-1] - y[-2]) / y[-1] if rel_norm else y[-1] - y[-2]
AssimuloDiff(traj, rel) ==
    [i \in 1..Dim |-> Frac(traj[2][i] - traj[1][i], IF rel THEN traj[2][i] ELSE 1)]

\* mutant: see NormNotAbove
ConvergedAtTolerance(diff, tol) == NormNotAbove(diff, tol)

\* int_scipy.py line 143, int_assimulo.py line 124
Converged(diff, tol) == NormBelow(diff, tol)

----------------------------------------------------------------------------
(* Bounds and inputs of the steady-state detection *)

MaxSteps == 3

RECURSIVE Pow(_, _)
Pow(b, n) == IF n = 0 THEN 1 ELSE b * Pow(b, n - 1)

\* systems: "any" leaves the solution open; "linear" multiplies the state by
\* p / q over every window of one step_size (decay when p < q, growth when p > q)
LinearSystems ==
    { [kind |-> "linear", p |-> 1, q |-> 2],
      [kind |-> "linear", p |-> 3, q |-> 4],
      [kind |-> "linear", p |-> 2, q |-> 1] }
AnySystem == [kind |-> "any", p |-> 1, q |-> 1]
IsDecay(sys) == sys.kind = "linear" /\ sys.p < sys.q
IsGrowth(sys) == sys.kind = "linear" /\ sys.p > sys.q

StateSet == { <<0, 0>>, <<3, 4>>, <<6, 8>> }

\* initial states; a linear system starts where MaxSteps windows stay exact
InitialStates(sys) ==
    IF sys.kind = "any" THEN StateSet
    ELSE LET u == Pow(sys.q, MaxSteps) IN { <<3 * u, 4 * u>>, <<u, 0>> }

Tolerances ==
    { [num |-> 5, den |-> 1], [num |-> 25, den |-> 1], [num |-> 1, den |-> 2],
      [num |-> 1, den |-> 1] }
StepSizes == {100}
TMaxSet == {4000, 1000000000}

\* the end state of a window the solver integrates without failure
SolverStep(sys, from) ==
    IF sys.kind = "any" THEN StateSet ELSE {Scale(from, sys.p, sys.q)}

\* the state a failed spi.ode step leaves behind: wherever the solver stopped
FailedStep(sys, from) == StateSet \cup {from}

\* whether the solver can fail on this system (a linear system is solved exactly)
CanFail(sys) == sys.kind = "any"

\* the last point but one of a CVode trajectory from `from` to `to`: the initial
\* point, or an internal step of the solver
Penultimate(sys, from, to) == {from} \cup StateSet

\* the integer square root, by bisection
RECURSIVE SqrtSearch(_, _, _)
SqrtSearch(n, lo, hi) ==
    IF lo = hi THEN lo
    ELSE LET mid == (lo + hi + 1) \div 2
         IN IF mid * mid <= n THEN SqrtSearch(n, mid, hi) ELSE SqrtSearch(n, lo, mid - 1)
ISqrt(n) == SqrtSearch(n, 0, IF n < 46340 THEN n ELSE 46340)

\* np.geomspace(1000, t_max, 3) = 1000, sqrt(1000 * t_max), t_max; the middle
\* point is written 1000 * sqrt(t_max / 1000), exact for the t_max of TMaxSet
GeomSpace3(tmax) == << 1000, 1000 * ISqrt(tmax \div 1000), tmax >>

----------------------------------------------------------------------------
(* int_scipy.py: Scipy.integrate_to_steady_state *)

\* mutant: the loop makes one pass more than max_steps
ScipyLoopOneMore(n, max) == n <= max

\* line 140: for _ in range(max_steps)
ScipyLoopContinues(n, max) == n < max

\* mutant: at the end of the schedule the last state is taken for the steady state
LastStateAtTimeLimit(tm, state) == Some(<<tm, state>>)

\* line 147 (int_assimulo.py line 128): return None, None
ExhaustedResult(tm, state) == None

\* mutant: reset() starts from zero concentrations
ScipyResetY0Zeroed(orig) == Zero

\* lines 59-62: reset()
ScipyResetT0 == 0
ScipyResetY0(orig) == orig

\* lines 134-139
ScipySteadyStart ==
    /\ backend = "scipy"
    /\ ss_pc = "idle"
    /\ \E tol \in Tolerances, rel \in BOOLEAN, ss \in StepSizes, ms \in 0..MaxSteps :
        /\ tolerance' = tol
        /\ rel_norm' = rel
        /\ step_size' = ss
        /\ max_steps' = ms
        /\ t' = ScipyResetT0 + ss
    /\ t0' = ScipyResetT0
    /\ y0' = ScipyResetY0(_y0_orig)
    /\ integ_t' = 0
    /\ integ_y' = y0'
    /\ y1' = y0'
    /\ y2' = <<>>
    /\ steps' = 0
    /\ hist' = <<>>
    /\ ss_result' = None
    /\ ss_pc' = "loop"
    /\ UNCHANGED <<backend, system, _y0_orig, t_max, y>>
    /\ UNCHANGED <<fitvars, restvars>>

\* lines 141-146: one pass of the loop
ScipySteadyStep ==
    /\ backend = "scipy"
    /\ ss_pc = "loop"
    /\ ScipyLoopContinues(steps, max_steps)
    /\ \E ok \in {TRUE} \cup {~CanFail(system)} :
       \E new \in IF ok THEN SolverStep(system, integ_y) ELSE FailedStep(system, integ_y) :
        LET below == Converged(ScipyDiff(new, y1, rel_norm), tolerance)
        IN /\ y2' = new
           /\ integ_y' = new
           /\ integ_t' = t
           /\ hist' = Append(hist, [t |-> t, start |-> integ_y, cmp |-> y1, end |-> new,
                                    below |-> below, ok |-> ok])
           /\ IF below
              THEN /\ ss_result' = Some(<<t, new>>)
                   /\ ss_pc' = "done"
                   /\ UNCHANGED <<y1, t>>
              ELSE /\ y1' = new
                   /\ t' = t + step_size
                   /\ UNCHANGED <<ss_result, ss_pc>>
    /\ steps' = steps + 1
    /\ UNCHANGED <<backend, system, y0, t0, _y0_orig, tolerance, rel_norm, step_size,
                   max_steps, t_max, y>>
    /\ UNCHANGED <<fitvars, restvars>>

\* line 147: the loop ran out
ScipySteadyExhausted ==
    /\ backend = "scipy"
    /\ ss_pc = "loop"
    /\ ~ScipyLoopContinues(steps, max_steps)
    /\ ss_result' = ExhaustedResult(t, y1)
    /\ ss_pc' = "done"
    /\ UNCHANGED <<backend, system, y0, t0, _y0_orig, integ_t, integ_y, tolerance, rel_norm,
                   step_size, max_steps, t_max, t, y1, y2, y, steps, hist>>
    /\ UNCHANGED <<fitvars, restvars>>

----------------------------------------------------------------------------
(* int_assimulo.py: Assimulo.integrate_to_steady_state *)

\* line 121: for t_end in np.geomspace(1000, t_max, 3)
AssimuloHorizons(tmax) == GeomSpace3(tmax)

\* line 118: self.reset(), and the arguments
AssimuloSteadyStart ==
    /\ backend = "assimulo"
    /\ ss_pc = "idle"
    /\ \E tol \in Tolerances, rel \in BOOLEAN, tm \in TMaxSet :
        /\ tolerance' = tol
        /\ rel_norm' = rel
        /\ t_max' = tm
    /\ integ_t' = 0
    /\ integ_y' = y0
    /\ steps' = 0
    /\ hist' = <<>>
    /\ ss_result' = None
    /\ ss_pc' = "loop"
    /\ UNCHANGED <<backend, system, y0, t0, _y0_orig, step_size, max_steps, t, y1, y2, y>>
    /\ UNCHANGED <<fitvars, restvars>>

\* lines 122-127: one pass of the loop; CVodeError ends the call with (None, None)
AssimuloSteadyStep ==
    /\ backend = "assimulo"
    /\ ss_pc = "loop"
    /\ steps < Len(AssimuloHorizons(t_max))
    /\ LET t_end == AssimuloHorizons(t_max)[steps + 1]
       IN \/ /\ CanFail(system)
             /\ hist' = Append(hist, [t |-> t_end, start |-> integ_y, cmp |-> integ_y,
                                      end |-> integ_y, below |-> FALSE, ok |-> FALSE])
             /\ ss_result' = None
             /\ ss_pc' = "done"
             /\ UNCHANGED <<integ_t, integ_y, t, y>>
          \/ \E last \in SolverStep(system, integ_y) :
             \E pen \in Penultimate(system, integ_y, last) :
              LET below == Converged(AssimuloDiff(<<pen, last>>, rel_norm), tolerance)
              IN /\ y' = <<pen, last>>
                 /\ t' = t_end
                 /\ integ_t' = t_end
                 /\ integ_y' = last
                 /\ hist' = Append(hist, [t |-> t_end, start |-> integ_y, cmp |-> pen,
                                          end |-> last, below |-> below, ok |-> TRUE])
                 /\ IF below
                    THEN ss_result' = Some(<<t_end, last>>) /\ ss_pc' = "done"
                    ELSE UNCHANGED <<ss_result, ss_pc>>
    /\ steps' = steps + 1
    /\ UNCHANGED <<backend, system, y0, t0, _y0_orig, tolerance, rel_norm, step_size,
                   max_steps, t_max, y1, y2>>
    /\ UNCHANGED <<fitvars, restvars>>

\* line 128: the schedule ran out
AssimuloSteadyExhausted ==
    /\ backend = "assimulo"
    /\ ss_pc = "loop"
    /\ steps >= Len(AssimuloHorizons(t_max))
    /\ ss_result' = ExhaustedResult(integ_t, integ_y)
    /\ ss_pc' = "done"
    /\ UNCHANGED <<backend, system, y0, t0, _y0_orig, integ_t, integ_y, tolerance, rel_norm,
                   step_size, max_steps, t_max, t, y1, y2, y, steps, hist>>
    /\ UNCHANGED <<fitvars, restvars>>

----------------------------------------------------------------------------
(* Construction of a backend *)

\* Scipy(rhs, y0) / Assimulo(rhs, y0): __post_init__
BackendInit ==
    /\ backend \in {"scipy", "assimulo"}
    /\ system \in IF backend = "scipy" THEN LinearSystems \cup {AnySystem} ELSE {AnySystem}
    /\ y0 \in InitialStates(system)
    /\ t0 = 0
    /\ _y0_orig = y0
    /\ integ_t = 0
    /\ integ_y = y0
    /\ ss_pc = "idle"
    /\ tolerance = [num |-> 1, den |-> 1]
    /\ rel_norm = FALSE
    /\ step_size = 100
    /\ max_steps = 0
    /\ t_max = 1000
    /\ t = 0
    /\ y1 = <<>>
    /\ y2 = <<>>
    /\ y = <<>>
    /\ steps = 0
    /\ ss_result = None
    /\ hist = <<>>

\* no backend in use
SteadyParked ==
    /\ BackendInit
    /\ backend = "scipy"
    /\ system = AnySystem
    /\ y0 = Zero
----------------------------------------------------------------------------
(* int_scipy.py / int_assimulo.py: integrate, integrate_time_course, reset *)

MaxOps == 3

\* the arguments of the calls
CtorT0s == {0, 100}
TEnds == {200, 300}
StepsArgs == {None, Some(0), Some(2)}
TimePointArgs == { [n |-> 2, first |-> 0, last |-> 100],
                   [n |-> 3, first |-> 100, last |-> 300] }

\* int_scipy.py line 82: steps = 100 if steps is None else steps + 1
ScipyDefaultPoints == 100
ScipyPoints(steps_arg) == IF steps_arg = None THEN ScipyDefaultPoints ELSE steps_arg[1] + 1

\* np.linspace(a, b, n), written by its length and its end points; one point is a alone
LinSpace(a, b, n) == [n |-> n, first |-> a, last |-> IF n = 1 THEN a ELSE b]

\* the time a linear system takes to multiply its state by p / q
WindowLen == CHOOSE s \in StepSizes : TRUE

RECURSIVE ScaleN(_, _, _, _)
ScaleN(v, a, b, k) == IF k = 0 THEN v ELSE ScaleN(Scale(v, a, b), a, b, k - 1)

\* the state a successful solve reaches from `from` over the time dt
Advance(sys, from, dt) ==
    IF dt = 0 THEN {from}
    ELSE IF sys.kind = "any" THEN StateSet
    ELSE IF dt > 0 THEN {ScaleN(from, sys.p, sys.q, dt \div WindowLen)}
    ELSE {ScaleN(from, sys.q, sys.p, (-dt) \div WindowLen)}

\* a trajectory (times, states), written by its length, its first and its last point
Traj(n, ta, tb, ya, yb) ==
    [kind |-> "traj", n |-> n, t_first |-> ta, t_last |-> tb, y_first |-> ya, y_last |-> yb]
NoTraj(k) == [kind |-> k, n |-> 0, t_first |-> 0, t_last |-> 0, y_first |-> Zero, y_last |-> Zero]
\* the solver's error leaves the call
Escaped == Some(NoTraj("raised"))
\* reset() returns nothing
Nothing == Some(NoTraj("nothing"))

\* mutant: the backend stays where the call began
ContinueFromStart(traj) == <<traj.t_first, traj.y_first>>

\* int_scipy.py lines 109-110: self.t0 = time_points[-1]; self.y0 = y[-1, :]
ContinueFrom(traj) == <<traj.t_last, traj.y_last>>

\* lines 101-111: spi.odeint starts at time_points[0] with self.y0; it reports a
\* failed solve by a warning and returns the array it has
ScipyTimeCourse(name, args, tp) ==
    /\ backend = "scipy"
    /\ ss_pc = "idle"
    /\ ops < MaxOps
    /\ \E failed \in {FALSE} \cup {CanFail(system) /\ tp.n > 1} :
       \E last \in IF failed THEN FailedStep(system, y0)
                   ELSE Advance(system, y0, tp.last - tp.first) :
        LET traj == Traj(tp.n, tp.first, tp.last, y0, last)
        IN /\ t0' = ContinueFrom(traj)[1]
           /\ y0' = ContinueFrom(traj)[2]
           /\ op_result' = Some(traj)
           /\ op_failed' = failed
    /\ op' = Append(op, name)
    /\ op_args' = args
    /\ op_pre' = <<t0, y0>>
    /\ ops' = ops + 1
    /\ UNCHANGED <<backend, system, _y0_orig, integ_t, integ_y, ss_pc, tolerance, rel_norm,
                   step_size, max_steps, t_max, t, y1, y2, y, steps, ss_result, hist>>

\* lines 82-86
ScipyIntegrate ==
    /\ \E t_end \in TEnds, steps_arg \in StepsArgs :
        ScipyTimeCourse("integrate", <<t_end, steps_arg>>,
                        LinSpace(t0, t_end, ScipyPoints(steps_arg)))
    /\ UNCHANGED <<t0_ctor, fitvars, lossvars, pairvars, memvars>>

\* lines 88-111
ScipyIntegrateTimeCourse ==
    /\ \E tp \in TimePointArgs :
        ScipyTimeCourse("integrate_time_course", <<tp.last, None>>, tp)
    /\ UNCHANGED <<t0_ctor, fitvars, lossvars, pairvars, memvars>>

\* lines 59-62
ScipyReset ==
    /\ backend = "scipy"
    /\ ss_pc = "idle"
    /\ ops < MaxOps
    /\ t0' = ScipyResetT0
    /\ y0' = ScipyResetY0(_y0_orig)
    /\ op' = Append(op, "reset")
    /\ op_args' = <<>>
    /\ op_pre' = <<t0, y0>>
    /\ op_failed' = FALSE
    /\ op_result' = Nothing
    /\ ops' = ops + 1
    /\ UNCHANGED <<backend, system, _y0_orig, integ_t, integ_y, ss_pc, tolerance, rel_norm,
                   step_size, max_steps, t_max, t, y1, y2, y, steps, ss_result, hist>>
    /\ UNCHANGED <<t0_ctor, fitvars, lossvars, pairvars, memvars>>

\* a (time, state) pair, as integrate_to_steady_state returns it
Point(tm, state) ==
    [kind |-> "point", n |-> 1, t_first |-> tm, t_last |-> tm, y_first |-> state,
     y_last |-> state]

\* lines 140-147 run to the end: what the loop can return from the solver state
\* cur, the comparison state cmp, the time tm and n passes made
RECURSIVE ScipySteadyRuns(_, _, _, _, _, _)
ScipySteadyRuns(sys, cur, cmp, tm, n, a) ==
    IF ~ScipyLoopContinues(n, a.max_steps)
    THEN {ExhaustedResult(tm, cmp)}
    ELSE UNION { IF Converged(ScipyDiff(new, cmp, a.rel_norm), a.tolerance)
                 THEN {Some(Point(tm, new))}
                 ELSE ScipySteadyRuns(sys, new, new, tm + a.step_size, n + 1, a) :
                 new \in SolverStep(sys, cur)
                         \cup (IF CanFail(sys) THEN FailedStep(sys, cur) ELSE {}) }

\* the arguments of integrate_to_steady_state
SteadyArgs ==
    [tolerance : Tolerances, rel_norm : BOOLEAN, step_size : StepSizes,
     max_steps : {0, 2}]

\* mutant: the backend continues from the steady state it detected
SteadyLeavesDetected(start, result) ==
    IF result = None THEN start ELSE <<result[1].t_last, result[1].y_last>>

\* lines 135-147 assign neither self.t0 nor self.y0: the backend stays where
\* reset() put it, whatever the call returns
SteadyLeaves(start, result) == start

\* lines 134-147 as one call; its arguments are not kept, op_args holds the time
\* and state the first window starts from
ScipySteadyState ==
    /\ backend = "scipy"
    /\ ss_pc = "idle"
    /\ ops < MaxOps
    /\ LET start == <<ScipyResetT0, ScipyResetY0(_y0_orig)>>
       IN /\ op_args' = start
          /\ \E r \in UNION { ScipySteadyRuns(system, start[2], start[2],
                                                start[1] + a.step_size, 0, a) :
                                a \in SteadyArgs } :
              /\ op_result' = r
              /\ t0' = SteadyLeaves(start, r)[1]
              /\ y0' = SteadyLeaves(start, r)[2]
    /\ op' = Append(op, "integrate_to_steady_state")
    /\ op_pre' = <<t0, y0>>
    /\ op_failed' = FALSE
    /\ ops' = ops + 1
    /\ UNCHANGED <<backend, system, _y0_orig, integ_t, integ_y, ss_pc, tolerance, rel_norm,
                   step_size, max_steps, t_max, t, y1, y2, y, steps, ss_result, hist>>
    /\ UNCHANGED <<t0_ctor, fitvars, lossvars, pairvars, memvars>>

\* int_assimulo.py lines 93-94: steps None is ncp = 0, the solver's own points
AssimuloNcp(steps_arg) == IF steps_arg = None THEN 0 ELSE steps_arg[1]

\* mutant: no except clause
AssimuloCatchesNothing(err) == FALSE

\* int_assimulo.py line 97: except CVodeError
AssimuloCatches(err) == err = "CVodeError"

\* int_assimulo.py lines 93-98: simulate from the integrator's time to t_end
AssimuloIntegrate ==
    /\ backend = "assimulo"
    /\ ss_pc = "idle"
    /\ ops < MaxOps
    /\ \E t_end \in TEnds, steps_arg \in StepsArgs :
        /\ t_end > integ_t
        /\ op_args' = <<t_end, steps_arg>>
        /\ \/ \E last \in Advance(system, integ_y, t_end - integ_t) :
                /\ integ_t' = t_end
                /\ integ_y' = last
                /\ op_failed' = FALSE
                /\ op_result' = Some(Traj(AssimuloNcp(steps_arg), integ_t, t_end,
                                          integ_y, last))
           \/ /\ CanFail(system)
              /\ integ_y' \in FailedStep(system, integ_y)
              /\ integ_t' = integ_t
              /\ op_failed' = TRUE
              /\ op_result' = IF AssimuloCatches("CVodeError") THEN None ELSE Escaped
    /\ op' = Append(op, "integrate")
    /\ op_pre' = <<integ_t, integ_y>>
    /\ ops' = ops + 1
    /\ UNCHANGED <<backend, system, y0, t0, _y0_orig, ss_pc, tolerance, rel_norm,
                   step_size, max_steps, t_max, t, y1, y2, y, steps, ss_result, hist>>
    /\ UNCHANGED <<t0_ctor, fitvars, lossvars, pairvars, memvars>>

\* int_assimulo.py lines 71-73: CVode.reset() returns to the problem's t0 and y0
AssimuloReset ==
    /\ backend = "assimulo"
    /\ ss_pc = "idle"
    /\ ops < MaxOps
    /\ integ_t' = 0
    /\ integ_y' = y0
    /\ op' = Append(op, "reset")
    /\ op_args' = <<>>
    /\ op_pre' = <<integ_t, integ_y>>
    /\ op_failed' = FALSE
    /\ op_result' = Nothing
    /\ ops' = ops + 1
    /\ UNCHANGED <<backend, system, y0, t0, _y0_orig, ss_pc, tolerance, rel_norm,
                   step_size, max_steps, t_max, t, y1, y2, y, steps, ss_result, hist>>
    /\ UNCHANGED <<t0_ctor, fitvars, lossvars, pairvars, memvars>>

\* Scipy(rhs, y0, t0=...) / Assimulo(rhs, y0): construction, no call made yet
BackendOpsInit ==
    /\ backend \in {"scipy", "assimulo"}
    /\ system \in LinearSystems \cup {AnySystem}
    /\ y0 \in {s \in InitialStates(system) : s # Zero /\ s[2] # 0}
    /\ t0_ctor \in IF backend = "scipy" THEN CtorT0s ELSE {0}
    /\ t0 = t0_ctor
    /\ _y0_orig = y0
    /\ integ_t = 0
    /\ integ_y = y0
    /\ ss_pc = "idle"
    /\ tolerance = [num |-> 1, den |-> 1]
    /\ rel_norm = FALSE
    /\ step_size = 100
    /\ max_steps = 0
    /\ t_max = 1000
    /\ t = 0
    /\ y1 = <<>>
    /\ y2 = <<>>
    /\ y = <<>>
    /\ steps = 0
    /\ ss_result = None
    /\ hist = <<>>
    /\ op = <<>>
    /\ op_args = <<>>
    /\ op_pre = <<>>
    /\ op_failed = FALSE
    /\ op_result = None
    /\ ops = 0

----------------------------------------------------------------------------
(* fit.py: rmse_ss and rmse_tc on their own *)

LossKinds == {"steady_state", "time_course"}

\* a table with the labels L, every column drawn from cols
Tables(L, cols) == [L -> cols]

\* data values of a kind: a Series holds numbers, a DataFrame holds columns
LossValues(kind) == IF kind = "steady_state" THEN {0, 2} ELSE {<<0, 0>>, <<2, 1>>}

\* experimental data: labels that are columns of the results, and the label "X"
\* that is not
LossData(kind) ==
    UNION { Tables(L, LossValues(kind)) : L \in {{"S"}, {"S", "v1"}, {"S", "X"}} }

\* pd.concat((c_ss, v_ss), axis=1) of a simulation that succeeded
LossResults(kind) ==
    { Concat(c, v) : c \in ConcTables(kind), v \in FluxTables(kind) }

LossInit ==
    /\ \E k \in LossKinds :
        loss_in \in [kind : {k}, data : LossData(k), results : LossResults(k)]
    /\ loss_out = <<>>

\* a table with every entry's sign changed
NegColumn(c) == [i \in 1..Len(c) |-> -c[i]]
NegSeries(d) == [l \in DOMAIN d |-> -d[l]]
NegFrame(tab) == [l \in DOMAIN tab |-> NegColumn(tab[l])]
NegData(kind, d) == IF kind = "steady_state" THEN NegSeries(d) ELSE NegFrame(d)

\* one evaluation of the likelihood, and one on the tables with every sign
\* changed, where each difference data - results is results - data
EvalLikelihood ==
    /\ loss_out = <<>>
    /\ loss_out' = << [value |-> likelihood(loss_in.kind, loss_in.data, loss_in.results),
                       mirrored |-> likelihood(loss_in.kind,
                                               NegData(loss_in.kind, loss_in.data),
                                               NegFrame(loss_in.results))] >>
    /\ UNCHANGED <<loss_in, fitvars, steadyvars, opvars, pairvars, memvars>>

----------------------------------------------------------------------------
(* fit.py: two fitting calls whose steps interleave *)

FitIds == {1, 2}

\* mutant: both calls are given the same Model instance
ModelOfShared(i) == CHOOSE j \in FitIds : \A k \in FitIds : j <= k

\* the Model a call is given: its own clone
ModelOf(i) == i

PairP0s ==
    { << <<"k1", Num(0)>> >>,
      << <<"k3", Num(1)>> >>,
      << <<"k2", Num(0)>>, <<"k1", Num(2)>> >> }

Exp(v) == v[2]
ClipExp(e) ==
    IF e < LowerBoundExp THEN LowerBoundExp ELSE IF e > UpperBoundExp THEN UpperBoundExp ELSE e
Shift(xv, by) == [i \in 1..Len(xv) |-> Num(ClipExp(Exp(xv[i]) + by))]

\* simulate-then-evaluate as a function of the Model's parameters: the residual
\* of a model whose data are matched when every parameter is 10^0
SimResidual(params) ==
    [kind |-> "rmse",
     sumsq |-> SumSet(DOMAIN params, [k \in DOMAIN params |-> Sq(Exp(params[k]))]),
     n |-> Cardinality(DOMAIN params)]

\* the minimizer as a function of what it has seen: it starts at x0, steps up,
\* and steps on from the latest candidate when that improved, else back from
\* the one before
NextCandidate(x0v, xs, rs) ==
    IF xs = <<>> THEN x0v
    ELSE IF Len(xs) = 1 THEN Shift(xs[1], 1)
    ELSE IF rs[Len(rs)].sumsq < rs[Len(rs) - 1].sumsq THEN Shift(xs[Len(xs)], 1)
    ELSE Shift(xs[Len(xs) - 1], -1)
MinimizerDone(xs) == Len(xs) >= MaxEvals
\* res.x: the first candidate of least residual
Best(xs, rs) ==
    xs[CHOOSE j \in 1..Len(xs) :
           \A k \in 1..Len(xs) : rs[j].sumsq < rs[k].sumsq \/ (rs[j].sumsq = rs[k].sumsq /\ j <= k)]

IdleFit ==
    [pc |-> "idle", p0 |-> <<>>, par_names |-> <<>>, p_orig |-> <<>>, xs |-> <<>>,
     rs |-> <<>>, used |-> <<>>, res |-> <<>>]

\* two clones of one Model, and no call begun
PairInit ==
    /\ \E params \in InitParameters : models = [m \in FitIds |-> params]
    /\ fits = [i \in FitIds |-> IdleFit]

\* fit.py lines 226-244: par_names, p_orig, and the call of minimize_fn
PairCall ==
    /\ \E i \in DOMAIN fits, guess \in PairP0s :
        /\ fits[i].pc = "idle"
        /\ fits' = [fits EXCEPT ![i] = [@ EXCEPT !.pc = "minimizing",
                                                 !.p0 = guess,
                                                 !.par_names = Keys(guess),
                                                 !.p_orig = ModelParameters(models[ModelOf(i)])]]
    /\ UNCHANGED <<models, fitvars, steadyvars, opvars, lossvars, memvars>>

\* lines 136-144: model.update_parameters(dict(zip(par_names, par_values)))
PairWrite ==
    /\ \E i \in DOMAIN fits :
        /\ fits[i].pc = "minimizing"
        /\ ~MinimizerDone(fits[i].xs)
        /\ LET cand == NextCandidate(Values(fits[i].p0), fits[i].xs, fits[i].rs)
           IN /\ models' = [models EXCEPT ![ModelOf(i)] =
                               update_parameters(@, CandidateDict(fits[i].par_names, cand))]
              /\ fits' = [fits EXCEPT ![i] = [@ EXCEPT !.pc = "wrote",
                                                       !.xs = Append(@, cand)]]
    /\ UNCHANGED <<fitvars, steadyvars, opvars, lossvars, memvars>>

\* lines 134-153: the simulation reads the Model, and the likelihood is returned
PairSimulate ==
    /\ \E i \in DOMAIN fits :
        /\ fits[i].pc = "wrote"
        /\ fits' = [fits EXCEPT ![i] =
                        [@ EXCEPT !.pc = "minimizing",
                                  !.used = Append(@, models[ModelOf(i)]),
                                  !.rs = Append(@, SimResidual(models[ModelOf(i)]))]]
    /\ UNCHANGED <<models, fitvars, steadyvars, opvars, lossvars, memvars>>

\* lines 244-248: minimize_fn returns, the parameters are restored
PairReturn ==
    /\ \E i \in DOMAIN fits :
        /\ fits[i].pc = "minimizing"
        /\ MinimizerDone(fits[i].xs)
        /\ models' = [models EXCEPT ![ModelOf(i)] = Restore(@, fits[i].p_orig)]
        /\ fits' = [fits EXCEPT ![i] =
                        [@ EXCEPT !.pc = "returned",
                                  !.res = _default_minimize_fn(fits[i].p0, TRUE,
                                                               Best(fits[i].xs, fits[i].rs))]]
    /\ UNCHANGED <<fitvars, steadyvars, opvars, lossvars, memvars>>

\* what a minimizer may hand to the residual function of one call
EvalCandidates(n) == Vectors({Num(0), Num(1)}, n)

\* one Model and one call
EvalInit ==
    /\ \E params \in InitParameters : models = <<params>>
    /\ fits = <<IdleFit>>

\* lines 136-144 under any minimize_fn: the candidate is the minimizer's choice
AnyWrite ==
    /\ \E i \in DOMAIN fits :
        /\ fits[i].pc = "minimizing"
        /\ Len(fits[i].xs) < MaxRepeat
        /\ \E cand \in EvalCandidates(Len(fits[i].par_names)) :
            /\ models' = [models EXCEPT ![ModelOf(i)] =
                              update_parameters(@, CandidateDict(fits[i].par_names, cand))]
            /\ fits' = [fits EXCEPT ![i] = [@ EXCEPT !.pc = "wrote",
                                                     !.xs = Append(@, cand)]]
    /\ UNCHANGED <<fitvars, steadyvars, opvars, lossvars, memvars>>

----------------------------------------------------------------------------
(* int_scipy.py: which arrays share storage *)

Alloc(h, v) == [heap |-> Append(h, v), ref |-> Len(h) + 1]

\* mutant: the copy is the array itself
CopyAliased(h, src) == [heap |-> h, ref |-> src]

\* lines 57, 62: .copy() is a new array with the same values
Copy(h, src) == Alloc(h, h[src])

\* line 110: y[-1, :] is a view, the storage of the last row of y
LastRowOf(ref) == ref

\* Scipy(rhs, y0): the field y0 is the caller's array, _y0_orig a copy of it
MemInit ==
    \E v \in StateSet :
        LET c == Copy(<<v>>, 1)
        IN /\ heap = c.heap
           /\ refs = [arg |-> 1, y0 |-> 1, orig |-> c.ref, ret |-> 0]
           /\ snap = v

\* lines 101-111: odeint gives a new array y; self.y0 = y[-1, :]; y is returned
MemIntegrate ==
    /\ Len(heap) < MaxOps + 2
    /\ \E new \in StateSet :
        LET a == Alloc(heap, new)
        IN /\ heap' = a.heap
           /\ refs' = [refs EXCEPT !.y0 = LastRowOf(a.ref), !.ret = a.ref]
    /\ UNCHANGED <<snap, fitvars, steadyvars, opvars, lossvars, pairvars>>

\* lines 59-62
MemReset ==
    /\ Len(heap) < MaxOps + 2
    /\ LET c == Copy(heap, refs.orig)
       IN /\ heap' = c.heap
          /\ refs' = [refs EXCEPT !.y0 = c.ref]
    /\ UNCHANGED <<snap, fitvars, steadyvars, opvars, lossvars, pairvars>>

\* lines 134-147: reset(), then (t, y2) with y2 an array of the solver, or (None, None)
MemSteadyState ==
    /\ Len(heap) < MaxOps + 1
    /\ LET c == Copy(heap, refs.orig)
       IN \/ /\ heap' = c.heap
             /\ refs' = [refs EXCEPT !.y0 = c.ref, !.ret = 0]
          \/ \E new \in StateSet :
              LET a == Alloc(c.heap, new)
              IN /\ heap' = a.heap
                 /\ refs' = [refs EXCEPT !.y0 = c.ref, !.ret = a.ref]
    /\ UNCHANGED <<snap, fitvars, steadyvars, opvars, lossvars, pairvars>>

\* the caller writes into an array it holds: the one it gave the constructor,
\* backend.y0, or the states a call returned
CallerMutates ==
    /\ \E name \in {"arg", "y0", "ret"}, v \in StateSet :
        /\ refs[name] # 0
        /\ heap[refs[name]] # v
        /\ heap' = [heap EXCEPT ![refs[name]] = v]
    /\ UNCHANGED <<refs, snap, fitvars, steadyvars, opvars, lossvars, pairvars>>

\* no backend whose arrays are followed
MemParked ==
    /\ heap = <<>>
    /\ refs = [arg |-> 0, y0 |-> 0, orig |-> 0, ret |-> 0]
    /\ snap = Zero

\* no call made on the backend
OpsParked ==
    /\ t0_ctor = 0
    /\ op = <<>>
    /\ op_args = <<>>
    /\ op_pre = <<>>
    /\ op_failed = FALSE
    /\ op_result = None
    /\ ops = 0

\* no likelihood evaluated on its own
LossParked ==
    /\ loss_in = <<>>
    /\ loss_out = <<>>

\* no pair of fitting calls
PairParked ==
    /\ models = <<>>
    /\ fits = <<>>

----------------------------------------------------------------------------
(* The fitting loop on its own: no integrator is stepped *)

Init == FitInit /\ SteadyParked /\ OpsParked /\ LossParked /\ PairParked /\ MemParked

Next ==
    \/ steady_state
    \/ time_course
    \/ _steady_state_residual
    \/ _time_course_residual
    \/ FitReturn
    \/ MinimizeRaises

Spec == Init /\ [][Next]_vars

(* Steady-state detection on its own: no fitting call is made *)

SteadyInit == FitInit /\ BackendInit /\ OpsParked /\ LossParked /\ PairParked /\ MemParked

SteadyNext ==
    \/ ScipySteadyStart
    \/ ScipySteadyStep
    \/ ScipySteadyExhausted
    \/ AssimuloSteadyStart
    \/ AssimuloSteadyStep
    \/ AssimuloSteadyExhausted

SteadySpec == SteadyInit /\ [][SteadyNext]_vars

(* The calls on a backend, each as one step *)

OpsInit == FitInit /\ BackendOpsInit /\ LossParked /\ PairParked /\ MemParked

BackendNext ==
    \/ ScipyIntegrate
    \/ ScipyIntegrateTimeCourse
    \/ ScipyReset
    \/ ScipySteadyState
    \/ AssimuloIntegrate
    \/ AssimuloReset

BackendSpec == OpsInit /\ [][BackendNext]_vars

(* The likelihoods as functions of their inputs *)

LossSpecInit == FitInit /\ SteadyParked /\ OpsParked /\ LossInit /\ PairParked /\ MemParked

LossNext == EvalLikelihood

LossSpec == LossSpecInit /\ [][LossNext]_vars

(* Two fitting calls, each against its own clone of the Model *)

PairSpecInit == FitInit /\ SteadyParked /\ OpsParked /\ LossParked /\ PairInit /\ MemParked

PairNext ==
    \/ PairCall
    \/ PairWrite
    \/ PairSimulate
    \/ PairReturn

PairSpec == PairSpecInit /\ [][PairNext]_vars

(* One fitting call whose minimizer may come back to a candidate *)

EvalSpecInit == FitInit /\ SteadyParked /\ OpsParked /\ LossParked /\ EvalInit /\ MemParked

EvalNext ==
    \/ PairCall
    \/ AnyWrite
    \/ PairSimulate
    \/ PairReturn

EvalSpec == EvalSpecInit /\ [][EvalNext]_vars

(* The arrays of a Scipy backend and of its caller *)

AliasInit == FitInit /\ SteadyParked /\ OpsParked /\ LossParked /\ PairParked /\ MemInit

AliasNext ==
    \/ MemIntegrate
    \/ MemReset
    \/ MemSteadyState
    \/ CallerMutates

AliasSpec == AliasInit /\ [][AliasNext]_vars

----------------------------------------------------------------------------
(* Claims about the fitting loop *)

\* the latest evaluation paired names and values and wrote them to the Model
Wrote == evals >= 1 /\ Len(x) = Len(par_names)

\* C1: whenever a fitting call returns normally, the Model's parameter map equals
\* the map it had immediately before the call, whatever candidates were evaluated
\* in between; so after any number of repeated calls the Model is in its first state.
C1_RestoredOnReturn ==
    fit_pc = "returned" => parameters = p_pre /\ parameters \in InitParameters

C1_Witness ==
    /\ fit_pc = "returned"
    /\ calls = 2
    /\ Wrote
    /\ \E i \in 1..Len(x) : x[i] # p_pre[par_names[i]]

\* C2: the Model's parameters equal their pre-call values on every exit path of a
\* fitting call, the exit by an unexpected error included.
C2_RestoredOnEveryExit ==
    fit_pc \in {"returned", "raised"} => parameters = p_pre

\* C3: the default minimizer returns a map with exactly the keys of p0 in their
\* order; when the underlying minimizer reports no success every value is NaN,
\* when it reports success the i-th value is the i-th component of the result
\* vector and lies within [1e-12, 1e6].
C3_DefaultMinimizer ==
    (fit_pc = "returned" /\ minimize_fn = "default") =>
        /\ Keys(res) = Keys(p0)
        /\ ~min_res[1] => \A i \in 1..Len(res) : res[i][2] = NaN
        /\ min_res[1] => \A i \in 1..Len(res) :
                            res[i][2] = min_res[2][i] /\ InBounds(res[i][2])

C3_Witness ==
    /\ fit_pc = "returned"
    /\ minimize_fn = "default"
    /\ ~min_res[1]
    /\ Keys(res) = <<"k2", "k1">>
    /\ min_res[2][1] # min_res[2][2]

\* C4: a residual evaluation whose simulation reports failure (the concentration
\* table or the flux table is None) returns +infinity without raising and without
\* calling the loss; otherwise it returns what the loss gives for the data and the
\* concatenated concentration and flux tables.
C4_ResidualSentinel ==
    sim.ran =>
        IF sim.c = None \/ sim.v = None
        THEN residual = Inf /\ ~loss_called
        ELSE /\ loss_called
             /\ fit_kind = "steady_state" => residual = rmse_ss(data, Concat(sim.c[1], sim.v[1]))
             /\ fit_kind = "time_course" => residual = rmse_tc(data, Concat(sim.c[1], sim.v[1]))

C4_Witness ==
    /\ sim.ran
    /\ sim.c # None
    /\ sim.v = None
    /\ residual = Inf
    /\ fit_pc = "minimizing"

\* C5: names and values are paired by index throughout a fit: the name list is the
\* key order of p0, the start vector the value order of p0, the i-th component of a
\* candidate is written to the Model under the i-th name, the i-th component of
\* the result is returned under the i-th name, and a candidate whose length differs
\* from the name list is rejected with nothing written.
C5_PairedByIndex ==
    /\ fit_pc # "idle" => par_names = Keys(p0)
    /\ (fit_pc # "idle" /\ minimize_fn = "default") => x0 = Values(p0)
    /\ (Wrote /\ fit_pc = "minimizing") =>
            \A i \in 1..Len(x) : parameters[par_names[i]] = x[i]
    /\ (fit_pc = "returned" /\ minimize_fn = "default" /\ min_res[1]) =>
            \A i \in 1..Len(par_names) : res[i] = <<par_names[i], min_res[2][i]>>
    /\ (evals >= 1 /\ Len(x) # Len(par_names)) =>
            residual = Raised /\ fit_pc = "raised" /\ parameters = p_before

C5_Witness ==
    /\ fit_pc = "minimizing"
    /\ Wrote
    /\ par_names = <<"k2", "k1">>
    /\ x[1] # x[2]
    /\ parameters["k2"] = x[1]
    /\ parameters["k1"] = x[2]

----------------------------------------------------------------------------
(* Claims about the steady-state detection *)

Done == ss_pc = "done"
Windows == 1..Len(hist)

\* the squared L2 norm of a - b, compared with the squared tolerance
AbsNormBelow(a, b, tol) ==
    SumSeq([i \in 1..Dim |-> Sq(a[i] - b[i])]) * Sq(tol.den) < Sq(tol.num)

\* C6: detection reports convergence at the first window whose difference has a
\* norm strictly below tolerance and returns that window's time and end state; at
\* every earlier window the norm was not below tolerance, and every window
\* compares with the end state of the window before it (y1 := y2; the starting
\* state at the first window).  A norm equal to tolerance is not convergence.
C6_FirstWindowBelow ==
    Done =>
        /\ \A i \in Windows :
            /\ hist[i].cmp = hist[i].start
            /\ i < Len(hist) => ~hist[i].below
            /\ (~rel_norm /\ hist[i].ok) =>
                   (hist[i].below <=> AbsNormBelow(hist[i].end, hist[i].cmp, tolerance))
        /\ ss_result # None =>
            /\ Len(hist) >= 1
            /\ hist[Len(hist)].below
            /\ ss_result = Some(<<hist[Len(hist)].t, hist[Len(hist)].end>>)

\* C7: detection stays within its fixed schedule and returns (None, None) when no
\* window converged: Scipy makes at most max_steps solver steps, at the times
\* step_size, 2 * step_size, ...; Assimulo makes at most 3 solver calls, at the
\* horizons 1000, sqrt(1000 * t_max), t_max; the loop can always move on.
C7_FixedSchedule ==
    /\ Len(hist) = steps
    /\ (backend = "scipy" /\ ss_pc # "idle") =>
        /\ steps <= max_steps
        /\ \A i \in Windows : hist[i].t = i * step_size
    /\ (backend = "assimulo" /\ ss_pc # "idle") =>
        /\ steps <= 3
        /\ \A i \in Windows :
            /\ i = 1 => hist[i].t = 1000
            /\ i = 2 => hist[i].t % 1000 = 0
                        /\ Sq(hist[i].t \div 1000) * 1000 = t_max
            /\ i = 3 => hist[i].t = t_max
    /\ ss_pc = "loop" => ENABLED SteadyNext
    /\ (Done /\ \A i \in Windows : ~hist[i].below) => ss_result = None

C7_Witness ==
    /\ Done
    /\ backend = "scipy"
    /\ max_steps = MaxSteps
    /\ steps = max_steps
    /\ ss_result = None

\* C8: when the underlying solver call fails at some window, detection returns
\* (None, None).
C8_FailureGivesNone ==
    (Done /\ \E i \in Windows : ~hist[i].ok) => ss_result = None

C10_DecayWithinTol ==
    (Done /\ IsDecay(system) /\ ~rel_norm /\ ss_result # None) =>
        AbsNormBelow(ss_result[1][2], Zero, tolerance)

\* C10 as amended: on a linear decay that keeps the fraction p / q of the state
\* over every window, the explicit backend with rel_norm = False returns either
\* (None, None) or a state whose distance from zero is below tol * p / (q - p).
C10_DecayWithinScaledTol ==
    (Done /\ IsDecay(system) /\ ~rel_norm /\ ss_result # None) =>
        LET end == ss_result[1][2]
        IN SumSeq([i \in 1..Dim |-> Sq(end[i])]) * Sq(system.q - system.p) * Sq(tolerance.den)
               < Sq(tolerance.num) * Sq(system.p)

C10_Witness ==
    /\ Done
    /\ IsDecay(system)
    /\ ~rel_norm
    /\ ss_result # None
    /\ ~AbsNormBelow(ss_result[1][2], Zero, tolerance)

----------------------------------------------------------------------------
(* Claims about the calls on a backend *)

\* the latest call on the backend is one of `names`
LastOpIn(names) == ops >= 1 /\ op[Len(op)] \in names
Integrations == {"integrate", "integrate_time_course"}
\* the latest call gave a trajectory
GaveTraj == op_result # None /\ op_result[1].kind = "traj"

\* C11: in the explicit backend, after every integrate or integrate_time_course
\* call (t0, y0) is the last time point and the last state of the trajectory the
\* call returned, and the trajectory of an integrate call starts at the time and
\* state the backend had when the call began, which is where the previous
\* call's trajectory ended: no integrate call resets the state.
C11_StatefulContinuation ==
    /\ [](backend = "scipy" /\ LastOpIn(Integrations) =>
            /\ GaveTraj
            /\ <<t0, y0>> = <<op_result[1].t_last, op_result[1].y_last>>
            /\ op_result[1].y_first = op_pre[2]
            /\ LastOpIn({"integrate"}) => op_result[1].t_first = op_pre[1])
    /\ [][(backend = "scipy" /\ LastOpIn(Integrations) /\ ops' = ops + 1
            /\ op'[Len(op')] = "integrate") =>
              /\ op_result'[1].t_first = op_result[1].t_last
              /\ op_result'[1].y_first = op_result[1].y_last]_vars

C11_Witness ==
    /\ backend = "scipy"
    /\ ops >= 2
    /\ op[Len(op)] = "integrate"
    /\ op[Len(op) - 1] = "integrate"
    /\ GaveTraj
    /\ op_result[1].t_first > t0_ctor
    /\ op_result[1].t_last > op_result[1].t_first
    /\ op_result[1].y_last # op_result[1].y_first
    /\ <<t0, y0>> = <<op_result[1].t_last, op_result[1].y_last>>

\* C12: in the explicit backend, after any sequence of calls, reset() leaves
\* t0 = 0 and y0 equal to the initial condition given at construction, of which
\* _y0_orig is a copy no call changes.
C12_ResetRestores ==
    /\ [](backend = "scipy" /\ LastOpIn({"reset"}) => t0 = 0 /\ y0 = _y0_orig)
    /\ [][_y0_orig' = _y0_orig]_vars

C12_Witness ==
    /\ backend = "scipy"
    /\ ops = MaxOps
    /\ op[Len(op)] = "reset"
    /\ op[1] = "integrate_to_steady_state"
    /\ op_pre[1] # 0
    /\ op_pre[2] # _y0_orig
    /\ t0 = 0
    /\ y0 = _y0_orig

\* the trajectory a freshly constructed backend gives for the arguments of the
\* latest integrate call, as far as the system determines it
FreshStart == IF backend = "scipy" THEN <<t0_ctor, _y0_orig>> ELSE <<0, y0>>
FreshTimes ==
    IF backend = "scipy"
    THEN LinSpace(FreshStart[1], op_args[1], ScipyPoints(op_args[2]))
    ELSE [n |-> AssimuloNcp(op_args[2]), first |-> FreshStart[1], last |-> op_args[1]]
SameAsFresh(traj) ==
    /\ traj.n = FreshTimes.n
    /\ traj.t_first = FreshTimes.first
    /\ traj.t_last = FreshTimes.last
    /\ traj.y_first = FreshStart[2]
    /\ system.kind = "linear" =>
         traj.y_last \in Advance(system, FreshStart[2], FreshTimes.last - FreshTimes.first)

\* C13: whatever the constructor arguments (initial state and start time t0) and
\* the calls made before, reset() followed by integrate(t_end) returns the
\* trajectory a freshly constructed backend returns for integrate(t_end).
C13_ResetThenIntegrateAsFresh ==
    (ops >= 2 /\ op[Len(op)] = "integrate" /\ op[Len(op) - 1] = "reset" /\ ~op_failed) =>
        GaveTraj /\ SameAsFresh(op_result[1])

\* C14: Assimulo.integrate turns a CVodeError of the solver into (None, None);
\* the error never leaves the call.
C14_CVodeErrorGivesNone ==
    (backend = "assimulo" /\ LastOpIn({"integrate"})) =>
        /\ op_failed => op_result = None
        /\ op_result # Escaped

C14_Witness ==
    /\ backend = "assimulo"
    /\ LastOpIn({"integrate"})
    /\ op_failed
    /\ op_result = None

\* C15: in the explicit backend a solver failure during integrate or
\* integrate_time_course gives (None, None): no trajectory of the failed solve
\* is returned, and (t0, y0) stay where they were.
C15_ScipyFailureGivesNone ==
    (backend = "scipy" /\ LastOpIn(Integrations) /\ op_failed) =>
        /\ op_result = None
        /\ <<t0, y0>> = op_pre

----------------------------------------------------------------------------
(* Claims about the likelihoods *)

Evaluated == loss_out # <<>>
\* the data restricted to the labels that are columns of the results
Matched(d, results) == [l \in DOMAIN d \cap DOMAIN results |-> d[l]]
\* the data equals the results in every row of each of its labels
DataEqualsResults(kind, d, results) ==
    /\ DOMAIN d \subseteq DOMAIN results
    /\ \A l \in DOMAIN d :
         IF kind = "steady_state"
         THEN \A r \in 1..Len(results[l]) : results[l][r] = d[l]
         ELSE results[l] = d[l]

\* C16: in rmse_ss and rmse_tc a data label with no column in the results is
\* dropped and is no error: the value is the one computed over the matched labels.
C16_UnmatchedDropped ==
    Evaluated =>
        /\ loss_out[1].value # Raised
        /\ loss_out[1].value =
             likelihood(loss_in.kind, Matched(loss_in.data, loss_in.results), loss_in.results)

\* C17: rmse_ss and rmse_tc return a non-negative value for all inputs, 0 when the
\* data equals the results restricted to the data's labels, and the same value
\* when every difference changes sign.
C17_RmseAlgebra ==
    Evaluated =>
        /\ loss_out[1].value.kind = "rmse"
        /\ loss_out[1].value.sumsq >= 0
        /\ loss_out[1].value.n > 0
        /\ DataEqualsResults(loss_in.kind, loss_in.data, loss_in.results) =>
             loss_out[1].value.sumsq = 0
        /\ loss_out[1].mirrored = loss_out[1].value

\* the same on the inputs whose labels are all columns of the results
RmseAlgebraOnMatched ==
    (Evaluated /\ DOMAIN loss_in.data \subseteq DOMAIN loss_in.results) => C17_RmseAlgebra

----------------------------------------------------------------------------
(* Claims about two interleaved fitting calls *)

\* the candidates and residuals of a fitting call that runs alone on a Model with
\* the parameters orig, from the guess
RECURSIVE SoloRun(_, _, _, _)
SoloRun(orig, guess, xs, rs) ==
    IF MinimizerDone(xs) THEN [xs |-> xs, rs |-> rs]
    ELSE LET cand == NextCandidate(Values(guess), xs, rs)
             wrote == update_parameters(orig, CandidateDict(Keys(guess), cand))
         IN SoloRun(wrote, guess, Append(xs, cand), Append(rs, SimResidual(wrote)))
SoloResult(orig, guess) ==
    LET run == SoloRun(orig, guess, <<>>, <<>>)
    IN _default_minimize_fn(guess, TRUE, Best(run.xs, run.rs))

\* the parameters both clones were made with
CloneParameters == CHOOSE params \in InitParameters : TRUE

\* C18: when two fitting calls interleave, each against its own clone, every
\* simulation of a call runs with the candidate values that call wrote for its
\* own names (and the clone's own values elsewhere), each call returns what it
\* returns alone, and each Model ends with its original parameters.
C18_ClonesIsolate ==
    \A i \in FitIds :
        /\ \A j \in 1..Len(fits[i].used) :
            /\ \A k \in 1..Len(fits[i].par_names) :
                 fits[i].used[j][fits[i].par_names[k]] = fits[i].xs[j][k]
            /\ \A name \in DOMAIN fits[i].used[j] :
                 (\A k \in 1..Len(fits[i].par_names) : fits[i].par_names[k] # name) =>
                     fits[i].used[j][name] = CloneParameters[name]
        /\ fits[i].pc = "returned" =>
            /\ fits[i].res = SoloResult(CloneParameters, fits[i].p0)
            /\ models[ModelOf(i)] = CloneParameters

C18_Witness ==
    /\ \A i \in FitIds : fits[i].pc = "returned" /\ Len(fits[i].used) = MaxEvals
    /\ fits[1].par_names # fits[2].par_names
    /\ \E k \in DOMAIN CloneParameters : fits[1].used[1][k] # fits[2].used[1][k]
    /\ fits[1].res # fits[2].res

----------------------------------------------------------------------------
(* Claims about the difference the steady-state check takes *)

\* (new - old) / new if rel else new - old: the relative difference divides by
\* the new state
DiffByNew(new, old, rel) ==
    [i \in 1..Dim |-> Frac(new[i] - old[i], IF rel THEN new[i] ELSE 1)]

\* C19: with rel_norm = True both backends divide the difference of the two
\* compared states elementwise by the new state y2, not by the old state y1;
\* with rel_norm = False the difference is y2 - y1.
C19_DividesByNewState ==
    \A i \in Windows :
        hist[i].ok =>
            (hist[i].below <=>
                NormBelow(DiffByNew(hist[i].end, hist[i].cmp, rel_norm), tolerance))

\* C20: in both backends the two states the check compares are the end states of
\* two successive windows: the old one is the end state of the window before (the
\* starting state at the first window), the new one the end state of this window;
\* never two points inside one window.
C20_SuccessiveWindows ==
    \A i \in Windows :
        hist[i].ok =>
            /\ hist[i].cmp = IF i = 1 THEN y0 ELSE hist[i - 1].end
            /\ hist[i].end = integ_y \/ i < Len(hist)

----------------------------------------------------------------------------
(* Claims about the arrays of a Scipy backend *)

\* C23: _y0_orig is a snapshot taken at construction: it shares storage with
\* neither the live y0, nor the array given to the constructor, nor a returned
\* result, and after any calls and any in-place writes of the caller into those
\* arrays it still holds the values of construction.
C23_SnapshotNeverAliased ==
    /\ heap[refs.orig] = snap
    /\ refs.orig \notin {refs.arg, refs.y0, refs.ret}

C23_Witness ==
    /\ Len(heap) = MaxOps + 2
    /\ heap[refs.arg] # snap
    /\ refs.y0 \notin {refs.arg, refs.ret}
    /\ heap[refs.y0] # snap
    /\ refs.ret # 0
    /\ heap[refs.orig] = snap

\* C24: the states an integrate / integrate_time_course call returned share no
\* storage with the backend's live y0, so a caller writing into the result
\* cannot change y0.
C24_ResultNotRetained ==
    refs.ret # 0 => refs.y0 # refs.ret

----------------------------------------------------------------------------
(* Claims about steady-state detection among the other calls *)

SteadyCall == {"integrate_to_steady_state"}

\* C21: detection starts from the backend's current state: after an integrate
\* call has advanced (t0, y0), the first window begins at that time and state.
C21_StartsFromCurrentState ==
    (backend = "scipy" /\ LastOpIn(SteadyCall) /\ ops >= 2
        /\ op[Len(op) - 1] \in Integrations) => op_args = op_pre

\* C22: Scipy.integrate returns exactly 100 time points when steps is None and
\* steps + 1 otherwise, the first the t0 before the call and the last t_end, and
\* for every steps >= 0 the backend's t0 is t_end after the call.
C22_IntegrateReachesTEnd ==
    (backend = "scipy" /\ LastOpIn({"integrate"})) =>
        /\ GaveTraj
        /\ op_result[1].n = IF op_args[2] = None THEN 100 ELSE op_args[2][1] + 1
        /\ op_result[1].t_first = op_pre[1]
        /\ op_result[1].t_last = op_args[1]
        /\ t0 = op_args[1]

\* C27: whatever it returns and whatever came before, Scipy's
\* integrate_to_steady_state leaves t0 = 0 and y0 at the initial condition of
\* construction, so that an integrate call after it starts from the initial
\* condition and not from the detected steady state.
C27_DetectionLeavesInitialCondition ==
    /\ [](backend = "scipy" /\ LastOpIn(SteadyCall) => <<t0, y0>> = <<0, _y0_orig>>)
    /\ [][(backend = "scipy" /\ LastOpIn(SteadyCall) /\ ops' = ops + 1
            /\ op'[Len(op')] = "integrate") =>
              /\ op_result'[1].t_first = 0
              /\ op_result'[1].y_first = _y0_orig]_vars

C27_Witness ==
    /\ backend = "scipy"
    /\ ops >= 2
    /\ LastOpIn(SteadyCall)
    /\ op[Len(op) - 1] = "integrate"
    /\ op_pre[1] # 0
    /\ op_pre[2] # _y0_orig
    /\ op_result # None
    /\ op_result[1].y_last # _y0_orig
    /\ <<t0, y0>> = <<0, _y0_orig>>

----------------------------------------------------------------------------
(* Claims about what a residual evaluation reads and writes *)

Named(k) == \E i \in 1..Len(par_names) : par_names[i] = k

\* C26: during a fitting call only the parameters named in p0 are written: after
\* any number of residual evaluations every parameter that is no key of p0 has
\* its value of before the call, and each parameter named in p0 holds the
\* corresponding component of the latest candidate (its value of before the
\* call while no candidate was evaluated).
C26_OnlyNamedWritten ==
    /\ fit_pc \in {"minimizing", "raised"} =>
          \A k \in DOMAIN parameters : ~Named(k) => parameters[k] = p_pre[k]
    /\ (fit_pc = "minimizing" /\ evals = 0) => parameters = p_pre
    /\ (fit_pc = "minimizing" /\ evals >= 1) =>
          /\ Len(x) = Len(par_names)
          /\ parameters = update_parameters(p_pre, CandidateDict(par_names, x))

C26_Witness ==
    /\ fit_pc = "minimizing"
    /\ evals = MaxEvals
    /\ calls = MaxCalls
    /\ parameters # p_before
    /\ parameters # p_pre
    /\ \E k \in DOMAIN parameters : ~Named(k)
    /\ \A i \in 1..Len(par_names) : parameters[par_names[i]] # p_pre[par_names[i]]

\* C25: the residual is a function of the candidate vector alone: two evaluations
\* of the same candidate during one fitting call give the same residual, whatever
\* was evaluated between them, because every evaluation overwrites every fitted
\* parameter and leaves the others as they were before the call.
C25_ResidualOfCandidateAlone ==
    \A i \in DOMAIN fits :
        /\ \A j, k \in 1..Len(fits[i].rs) :
              fits[i].xs[j] = fits[i].xs[k] => fits[i].rs[j] = fits[i].rs[k]
        /\ \A j \in 1..Len(fits[i].rs) :
              fits[i].rs[j] = SimResidual(update_parameters(fits[i].p_orig,
                                  CandidateDict(fits[i].par_names, fits[i].xs[j])))

C25_Witness ==
    \E i \in DOMAIN fits :
        /\ Len(fits[i].rs) = 3
        /\ Len(fits[i].par_names) = 2
        /\ fits[i].xs[1] = fits[i].xs[3]
        /\ fits[i].xs[1] # fits[i].xs[2]
        /\ fits[i].rs[1] = fits[i].rs[3]
        /\ fits[i].rs[1] # fits[i].rs[2]

----------------------------------------------------------------------------
(* Claims about a zero in the divisor of the relative difference *)

HasZero(state) == \E i \in 1..Dim : state[i] = 0

\* the state a window's difference is divided by: int_scipy.py line 142 (y1),
\* int_assimulo.py line 123 (y[-1])
Divisor(w) == IF backend = "scipy" THEN w.cmp ELSE w.end

\* C28: with rel_norm = True a zero in the divisor state raises nothing: the norm
\* of that window is infinite or undefined, never below tolerance, and the window
\* counts as not converged; when the divisor has a zero component at every window
\* the call returns (None, None) after the full schedule, even though the state
\* has stopped changing.
C28_ZeroDivisorNeverConverges ==
    (rel_norm /\ ss_pc \in {"loop", "done"}) =>
        /\ \A i \in Windows : HasZero(Divisor(hist[i])) => ~hist[i].below
        /\ (Done /\ \A i \in Windows : HasZero(Divisor(hist[i]))) =>
              /\ ss_result = None
              /\ backend = "scipy" => Len(hist) = max_steps
              /\ backend = "assimulo" =>
                    \/ Len(hist) = Len(AssimuloHorizons(t_max))
                    \/ ~hist[Len(hist)].ok

C28_Witness ==
    /\ Done
    /\ rel_norm
    /\ backend = "scipy"
    /\ max_steps = MaxSteps
    /\ Len(hist) = MaxSteps
    /\ \A i \in Windows :
          /\ hist[i].ok
          /\ HasZero(hist[i].cmp)
          /\ hist[i].end = hist[i].cmp
          /\ Converged(ScipyDiff(hist[i].end, hist[i].cmp, FALSE), tolerance)
    /\ ss_result = None

====
